---- MODULE Spec2Model ----
(***************************************************************************)
(* Report lifecycle of the rail_back Flask backend (src/app.py): the       *)
(* `reports` table and the handlers that write it (save_report,            *)
(* update_report, admin_approve), with the read-side handlers as operators *)
(* over the table; the `users` table with register and login; and the     *)
(* relative-age text of the activity feeds.                                *)
(* The report handlers never touch `users` and register/login never touch  *)
(* `reports`, so each table has its own specification (Spec, SpecUsers);   *)
(* the relative-age text is a function of the age alone (SpecAge).         *)
(*                                                                         *)
(* The type strings of the source are written in ASCII here:               *)
(*   "REPORT" stands for '신고' and "DISPATCHED" for '출동'.                  *)
(* The statements are taken at their SQL meaning (the handlers are written *)
(* against the sqlite3 connection API: db.execute, '?' parameters).        *)
(* SQL NULL / Python None is the value NULL; a key that a JSON body does   *)
(* not carry is a key outside the DOMAIN of the request record.            *)
(* The columns photo_filename, lat, lng and extra are copied from the      *)
(* request by save_report and never read or written by any other           *)
(* statement modelled here; they are left out of the row.                  *)
(***************************************************************************)
EXTENDS Integers, Sequences, FiniteSets, TLC

\* ---------------------------------------------------------------- bounds
MaxReports == 2   \* rows the table may hold
MaxTime    == 2   \* timestamps are 1..MaxTime (equal-format ISO strings, in order)
MaxSmallAge == 61 \* SpecAge: every age 0..MaxSmallAge, and ages at the later bucket edges

\* ---------------------------------------------------------------- values
NULL == "<null>"

REPORT     == "REPORT"
DISPATCHED == "DISPATCHED"

Users      == {"guest", "u1"}   \* reporters ("guest" is the default user_id)
Responders == {"u1", "u2"}      \* users that claim reports
Locations == {"L1", "L2"}
Times     == 1..MaxTime

VARIABLES
    reports,   \* the reports table: a sequence of rows in insertion order
    nextId,    \* the AUTOINCREMENT counter of reports.id
    last,      \* the request handled last and its response
    users,     \* the users table: a sequence of rows in insertion order
    seconds,   \* SpecAge: the age, in whole seconds, of the row being formatted
    time_str   \* SpecAge: the relative-age text each feed handler gives it

vars == <<reports, nextId, last, users, seconds, time_str>>

\* dict.get(key, default) of a JSON body
Get(data, key, default) == IF key \in DOMAIN data THEN data[key] ELSE default

\* Python `not x` on an integer-valued key: 0 stands for every falsy value a
\* body can carry there (a missing key / None, 0, '')
Falsy(x) == x = 0

\* SQL `column = ?`: NULL compares equal to nothing, itself included
SqlEq(a, b) == a # NULL /\ b # NULL /\ a = b

\* ------------------------------------------------------- request bodies
\* Bodies of POST /api/report.  Every body carries ai_stage (the stage the
\* classifier returned); the other keys are optional.
OrdinaryBodies ==
    { [type |-> REPORT, location |-> l, ai_stage |-> s, user_id |-> "u1"] :
        l \in Locations, s \in {2, 3} }

SpecialBodies ==
    { [type |-> REPORT, location |-> "L1", ai_stage |-> 3],
      [type |-> REPORT, ai_stage |-> 2, user_id |-> "u1"],
      [location |-> "L1", ai_stage |-> 2, user_id |-> "u1"],
      [type |-> REPORT, location |-> "L1", ai_stage |-> 2, user_id |-> "u1",
       timestamp |-> 1],
      [type |-> REPORT, location |-> "L1", ai_stage |-> 2, user_id |-> "u1",
       for_userpage_type |-> DISPATCHED, for_userpage_stage |-> 3],
      [type |-> REPORT, location |-> "L1", ai_stage |-> 2, user_id |-> "u1",
       dispatch_user_id |-> "u1"] }

ReportBodies == OrdinaryBodies \cup SpecialBodies

\* Bodies of POST /api/report_update: both keys optional
UpdateBodies ==
    { [location |-> l, dispatch_user_id |-> u] : l \in Locations, u \in Responders }
    \cup { [location |-> "L1"], [dispatch_user_id |-> "u1"] }

\* Bodies of POST /api/admin_approve: both keys optional; ai_stage 2 is a
\* value outside [3, 5]
ApproveBodies ==
    { [id |-> i, ai_stage |-> s] : i \in 1..MaxReports, s \in {3, 5} }
    \cup { [id |-> 1, ai_stage |-> 2], [ai_stage |-> 3], [id |-> 1] }

Init ==
    /\ reports = << >>
    /\ nextId = 1
    /\ last = [op |-> "none"]
    /\ users = << >>
    /\ seconds = 0
    /\ time_str = NULL

\* NewRow with the shadow stage defaulting to the pending stage 2 instead of
\* the body's ai_stage
NewRowFixedShadowStage(data, now) ==
    LET type_    == Get(data, "type", "")
        ai_stage == data.ai_stage
        timestamp == Get(data, "timestamp", 0)
    IN  [ id                 |-> nextId,
          user_id            |-> Get(data, "user_id", "guest"),
          type               |-> type_,
          location           |-> Get(data, "location", NULL),
          timestamp          |-> IF Falsy(timestamp) THEN now ELSE timestamp,
          ai_stage           |-> ai_stage,
          dispatch_user_id   |-> Get(data, "dispatch_user_id", NULL),
          for_userpage_type  |-> Get(data, "for_userpage_type", type_),
          for_userpage_stage |-> Get(data, "for_userpage_stage", 2) ]

\* NewRow with dispatch_user_id defaulting like user_id, to 'guest'
NewRowGuestResponder(data, now) ==
    LET type_    == Get(data, "type", "")
        ai_stage == data.ai_stage
        timestamp == Get(data, "timestamp", 0)
    IN  [ id                 |-> nextId,
          user_id            |-> Get(data, "user_id", "guest"),
          type               |-> type_,
          location           |-> Get(data, "location", NULL),
          timestamp          |-> IF Falsy(timestamp) THEN now ELSE timestamp,
          ai_stage           |-> ai_stage,
          dispatch_user_id   |-> Get(data, "dispatch_user_id", "guest"),
          for_userpage_type  |-> Get(data, "for_userpage_type", type_),
          for_userpage_stage |-> Get(data, "for_userpage_stage", ai_stage) ]

\* POST /api/report
NewRow(data, now) ==
    LET type_    == Get(data, "type", "")
        ai_stage == data.ai_stage
        timestamp == Get(data, "timestamp", 0)
    IN  [ id                 |-> nextId,
          user_id            |-> Get(data, "user_id", "guest"),
          type               |-> type_,
          location           |-> Get(data, "location", NULL),
          timestamp          |-> IF Falsy(timestamp) THEN now ELSE timestamp,
          ai_stage           |-> ai_stage,
          dispatch_user_id   |-> Get(data, "dispatch_user_id", NULL),
          for_userpage_type  |-> Get(data, "for_userpage_type", type_),
          for_userpage_stage |-> Get(data, "for_userpage_stage", ai_stage) ]

\* save_report on a table whose id counter does not advance
save_reportNoIncrement(data, now) ==
    /\ Len(reports) < MaxReports
    /\ reports' = Append(reports, NewRow(data, now))
    /\ last' = [op |-> "report", data |-> data, status |-> 200, result |-> "success"]
    /\ UNCHANGED <<nextId, users, seconds, time_str>>

save_report(data, now) ==
    /\ Len(reports) < MaxReports
    /\ reports' = Append(reports, NewRow(data, now))
    /\ nextId' = nextId + 1
    /\ last' = [op |-> "report", data |-> data, status |-> 200, result |-> "success"]
    /\ UNCHANGED <<users, seconds, time_str>>

\* the UPDATE matching on location alone
DispatchRowAnyType(r, location, dispatch_user_id) ==
    IF SqlEq(r.location, location)
    THEN [r EXCEPT !.type = DISPATCHED, !.ai_stage = 1,
                   !.dispatch_user_id = dispatch_user_id]
    ELSE r

\* the UPDATE matching the rows at stage 1 along with the pending ones
DispatchRowOrStageOne(r, location, dispatch_user_id) ==
    IF SqlEq(r.location, location) /\ (SqlEq(r.type, REPORT) \/ r.ai_stage = 1)
    THEN [r EXCEPT !.type = DISPATCHED, !.ai_stage = 1,
                   !.dispatch_user_id = dispatch_user_id]
    ELSE r

\* the UPDATE matching on the shadow type instead of the type
DispatchRowShadowType(r, location, dispatch_user_id) ==
    IF SqlEq(r.location, location) /\ SqlEq(r.for_userpage_type, REPORT)
    THEN [r EXCEPT !.type = DISPATCHED, !.ai_stage = 1,
                   !.dispatch_user_id = dispatch_user_id]
    ELSE r

\* the UPDATE setting the shadow columns along with type and ai_stage
DispatchRowWithShadow(r, location, dispatch_user_id) ==
    IF SqlEq(r.location, location) /\ SqlEq(r.type, REPORT)
    THEN [r EXCEPT !.type = DISPATCHED, !.ai_stage = 1,
                   !.dispatch_user_id = dispatch_user_id,
                   !.for_userpage_type = DISPATCHED,
                   !.for_userpage_stage = 1]
    ELSE r

\* POST /api/report_update
\* UPDATE reports SET type='출동', ai_stage=1, dispatch_user_id=?
\*   WHERE location=? AND type='신고'
DispatchRow(r, location, dispatch_user_id) ==
    IF SqlEq(r.location, location) /\ SqlEq(r.type, REPORT)
    THEN [r EXCEPT !.type = DISPATCHED, !.ai_stage = 1,
                   !.dispatch_user_id = dispatch_user_id]
    ELSE r

update_report(data) ==
    LET location         == Get(data, "location", NULL)
        dispatch_user_id == Get(data, "dispatch_user_id", NULL)
    IN  /\ reports' = [i \in DOMAIN reports |->
                          DispatchRow(reports[i], location, dispatch_user_id)]
        /\ last' = [op |-> "report_update", data |-> data, status |-> 200,
                    result |-> "updated"]
        /\ UNCHANGED <<nextId, users, seconds, time_str>>

\* the UPDATE setting ai_stage alone
ApproveRowStageOnly(r, report_id, stage) ==
    IF r.id = report_id THEN [r EXCEPT !.ai_stage = stage] ELSE r

\* the UPDATE without its WHERE clause
ApproveRowEveryRow(r, report_id, stage) ==
    [r EXCEPT !.ai_stage = stage, !.for_userpage_stage = stage]

\* the UPDATE resetting the shadow type along with the stage
ApproveRowShadowType(r, report_id, stage) ==
    IF r.id = report_id
    THEN [r EXCEPT !.ai_stage = stage, !.for_userpage_stage = stage,
                   !.for_userpage_type = r.type]
    ELSE r

\* POST /api/admin_approve
\* UPDATE reports SET ai_stage=?, for_userpage_stage=? WHERE id=?
ApproveRow(r, report_id, stage) ==
    IF r.id = report_id
    THEN [r EXCEPT !.ai_stage = stage, !.for_userpage_stage = stage]
    ELSE r

\* the parameter check without its test of the stage
InvalidParamsIdOnly(report_id, stage) == Falsy(report_id)

InvalidParams(report_id, stage) == Falsy(report_id) \/ stage \notin {3, 5}

admin_approve(data) ==
    LET report_id == Get(data, "id", 0)
        stage     == Get(data, "ai_stage", 0)
    IN  IF InvalidParams(report_id, stage)
        THEN /\ last' = [op |-> "admin_approve", data |-> data, status |-> 400,
                         result |-> "fail"]
             /\ UNCHANGED <<reports, nextId, users, seconds, time_str>>
        ELSE /\ reports' = [i \in DOMAIN reports |->
                               ApproveRow(reports[i], report_id, stage)]
             /\ last' = [op |-> "admin_approve", data |-> data, status |-> 200,
                         result |-> "success"]
             /\ UNCHANGED <<nextId, users, seconds, time_str>>

\* ------------------------------------------------------------ read side
\* GET /api/user_stats?user_id=   (user_id defaults to 'guest')
user_stats(user_id) ==
    LET report_count ==
            Cardinality({i \in DOMAIN reports :
                /\ SqlEq(reports[i].user_id, user_id)
                /\ SqlEq(reports[i].for_userpage_type, REPORT)
                /\ reports[i].for_userpage_stage = 3})
        dispatch_count ==
            Cardinality({i \in DOMAIN reports :
                /\ SqlEq(reports[i].dispatch_user_id, user_id)
                /\ SqlEq(reports[i].type, DISPATCHED)
                /\ reports[i].ai_stage = 1})
    IN  [report_count |-> report_count, dispatch_count |-> dispatch_count]

\* user_point counting reports by the admin-side columns type / ai_stage
user_pointAdminColumns(user_id) ==
    LET cur1 == {i \in DOMAIN reports :
                    /\ SqlEq(reports[i].user_id, user_id)
                    /\ SqlEq(reports[i].type, REPORT)
                    /\ reports[i].ai_stage = 3}
        cur2 == {i \in DOMAIN reports :
                    /\ SqlEq(reports[i].dispatch_user_id, user_id)
                    /\ SqlEq(reports[i].type, DISPATCHED)
                    /\ reports[i].ai_stage = 1}
        report_count   == Cardinality(cur1)
        dispatch_count == Cardinality(cur2)
    IN  [point |-> report_count * 5000 + dispatch_count * 10000]

\* GET /api/user_point?user_id=   (its own two COUNT(*) queries)
user_point(user_id) ==
    LET cur1 == {i \in DOMAIN reports :
                    /\ SqlEq(reports[i].user_id, user_id)
                    /\ SqlEq(reports[i].for_userpage_type, REPORT)
                    /\ reports[i].for_userpage_stage = 3}
        cur2 == {i \in DOMAIN reports :
                    /\ SqlEq(reports[i].dispatch_user_id, user_id)
                    /\ SqlEq(reports[i].type, DISPATCHED)
                    /\ reports[i].ai_stage = 1}
        report_count   == Cardinality(cur1)
        dispatch_count == Cardinality(cur2)
    IN  [point |-> report_count * 5000 + dispatch_count * 10000]

\* ORDER BY timestamp DESC over the rows with indices in S: every order of
\* S in which timestamps never increase (rows with equal timestamps come in
\* an order the database chooses)
OrderByTimestampDesc(S) ==
    {f \in [1..Cardinality(S) -> S] :
        /\ \A j, k \in DOMAIN f : j # k => f[j] # f[k]
        /\ \A j, k \in DOMAIN f :
              j < k => reports[f[j]].timestamp >= reports[f[k]].timestamp}

\* the queue filter without its test of the type
AdminQueueRowsAnyType == {i \in DOMAIN reports : reports[i].ai_stage = 2}

\* GET /api/admin_reports: the set of responses the handler can give
\* SELECT id, type, location, timestamp FROM reports
\*   WHERE type='신고' AND ai_stage=2 ORDER BY timestamp DESC
AdminQueueRows ==
    {i \in DOMAIN reports :
        SqlEq(reports[i].type, REPORT) /\ reports[i].ai_stage = 2}

admin_reports ==
    {[j \in DOMAIN f |->
        [id        |-> reports[f[j]].id,
         type      |-> reports[f[j]].type,
         location  |-> reports[f[j]].location,
         timestamp |-> reports[f[j]].timestamp]] :
     f \in OrderByTimestampDesc(AdminQueueRows)}

\* ------------------------------------------------------ activity feeds
\* GET /api/report_stats
report_stats ==
    LET blocked_count ==
            Cardinality({i \in DOMAIN reports :
                SqlEq(reports[i].type, REPORT) /\ reports[i].ai_stage = 3})
        dispatched_count ==
            Cardinality({i \in DOMAIN reports :
                SqlEq(reports[i].type, DISPATCHED) /\ reports[i].ai_stage = 1})
    IN  [blocked_count |-> blocked_count, dispatched_count |-> dispatched_count]

\* values of the `limit` query parameter (the claims are about limit >= 0)
Limits == 0..(2 * MaxReports)

\* SELECT ... UNION ALL SELECT ...: the rows of both sides, a row that both
\* sides select twice; an entry is <<side, index of the row>>
UnionAll(A, B) == ({"report"} \X A) \cup ({"dispatch"} \X B)

\* ORDER BY timestamp (ascending) over the entries E
OrderEntriesByTimestampAsc(E) ==
    {f \in [1..Cardinality(E) -> E] :
        /\ \A j, k \in DOMAIN f : j # k => f[j] # f[k]
        /\ \A j, k \in DOMAIN f :
              j < k => reports[f[j][2]].timestamp <= reports[f[k][2]].timestamp}

\* ORDER BY timestamp DESC over the entries E (ties in any order)
OrderEntriesByTimestampDesc(E) ==
    {f \in [1..Cardinality(E) -> E] :
        /\ \A j, k \in DOMAIN f : j # k => f[j] # f[k]
        /\ \A j, k \in DOMAIN f :
              j < k => reports[f[j][2]].timestamp >= reports[f[k][2]].timestamp}

\* LIMIT ?  (limit >= 0)
Limit(f, limit) == IF limit >= Len(f) THEN f ELSE SubSeq(f, 1, limit)

\* the dict appended for a selected row (its "time" text is TimeStr of its age)
FeedEntry(e) ==
    [type      |-> reports[e[2]].type,
     location  |-> reports[e[2]].location,
     timestamp |-> reports[e[2]].timestamp]

\* GET /api/all_reports?limit=
AllReportSide ==
    {i \in DOMAIN reports :
        SqlEq(reports[i].type, REPORT) /\ reports[i].ai_stage = 3}

AllDispatchSide ==
    {i \in DOMAIN reports :
        SqlEq(reports[i].type, DISPATCHED) /\ reports[i].ai_stage = 1}

\* the rows the statement of all_reports can select, in order
all_reportsRows(limit) ==
    {Limit(f, limit) :
        f \in OrderEntriesByTimestampDesc(UnionAll(AllReportSide, AllDispatchSide))}

\* the responses all_reports can give
all_reports(limit) ==
    {[j \in DOMAIN f |-> FeedEntry(f[j])] : f \in all_reportsRows(limit)}

\* the REPORT side of user_reports filtering on the admin-side columns
UserReportSideAdminColumns(user_id) ==
    {i \in DOMAIN reports :
        /\ SqlEq(reports[i].user_id, user_id)
        /\ SqlEq(reports[i].type, REPORT)
        /\ reports[i].ai_stage = 3}

\* GET /api/user_reports?user_id=&limit=   (user_id defaults to 'guest')
UserReportSide(user_id) ==
    {i \in DOMAIN reports :
        /\ SqlEq(reports[i].user_id, user_id)
        /\ SqlEq(reports[i].for_userpage_type, REPORT)
        /\ reports[i].for_userpage_stage = 3}

UserDispatchSide(user_id) ==
    {i \in DOMAIN reports :
        /\ SqlEq(reports[i].dispatch_user_id, user_id)
        /\ SqlEq(reports[i].type, DISPATCHED)
        /\ reports[i].ai_stage = 1}

user_reportsRows(user_id, limit) ==
    {Limit(f, limit) :
        f \in OrderEntriesByTimestampDesc(
                 UnionAll(UserReportSide(user_id), UserDispatchSide(user_id)))}

user_reports(user_id, limit) ==
    {[j \in DOMAIN f |-> FeedEntry(f[j])] : f \in user_reportsRows(user_id, limit)}

\* -------------------------------------------------------- relative age
\* The text the feed handlers put in "time" for a row of age `secs` (now - t
\* in whole seconds, secs >= 0), as <<number, unit>>; the units stand for the
\* suffixes '초 전', '분 전', '시간 전', '일 전', '달 전'.  diff.days is
\* secs \div 86400.  Each handler carries its own copy of the code.

\* the copy of all_reports with the first test written `seconds <= 60`
TimeStrAllReportsInclusive(secs) ==
    LET days == secs \div 86400
    IN  IF secs <= 60 THEN <<secs, "seconds">>
        ELSE IF secs < 3600 THEN <<secs \div 60, "minutes">>
        ELSE IF secs < 86400 THEN <<secs \div 3600, "hours">>
        ELSE IF days < 30 THEN <<days, "days">>
        ELSE <<days \div 30, "months">>

\* all_reports
TimeStrAllReports(secs) ==
    LET days == secs \div 86400
    IN  IF secs < 60 THEN <<secs, "seconds">>
        ELSE IF secs < 3600 THEN <<secs \div 60, "minutes">>
        ELSE IF secs < 86400 THEN <<secs \div 3600, "hours">>
        ELSE IF days < 30 THEN <<days, "days">>
        ELSE <<days \div 30, "months">>

\* user_reports
TimeStrUserReports(secs) ==
    LET days == secs \div 86400
    IN  IF secs < 60 THEN <<secs, "seconds">>
        ELSE IF secs < 3600 THEN <<secs \div 60, "minutes">>
        ELSE IF secs < 86400 THEN <<secs \div 3600, "hours">>
        ELSE IF days < 30 THEN <<days, "days">>
        ELSE <<days \div 30, "months">>

\* admin_reports
TimeStrAdminReports(secs) ==
    LET days == secs \div 86400
    IN  IF secs < 60 THEN <<secs, "seconds">>
        ELSE IF secs < 3600 THEN <<secs \div 60, "minutes">>
        ELSE IF secs < 86400 THEN <<secs \div 3600, "hours">>
        ELSE IF days < 30 THEN <<days, "days">>
        ELSE <<days \div 30, "months">>

\* ages: the small ones and those around every later edge
AgeSamples ==
    (0..MaxSmallAge)
    \cup {90, 119, 120, 3599, 3600, 3601, 7199, 7200, 86399, 86400, 86401,
          172799, 172800, 2591999, 2592000, 2592001, 3456000, 5183999,
          5184000, 31536000}

InitAge ==
    /\ reports = << >>
    /\ nextId = 1
    /\ last = [op |-> "none"]
    /\ users = << >>
    /\ seconds \in AgeSamples
    /\ time_str = NULL

\* the three handlers format a row of the age `seconds`
FormatAge ==
    /\ last.op = "none"
    /\ time_str' = [all_reports   |-> TimeStrAllReports(seconds),
                    user_reports  |-> TimeStrUserReports(seconds),
                    admin_reports |-> TimeStrAdminReports(seconds)]
    /\ last' = [op |-> "time_str"]
    /\ UNCHANGED <<reports, nextId, users, seconds>>

NextAge == FormatAge

SpecAge == InitAge /\ [][NextAge]_vars

\* ---------------------------------------------------------- users table
UserIds   == {"u1", "u2"}
Passwords == {"p1", "p2"}
Tokens    == {"t1", "t2"}      \* values secrets.token_hex(16) may return

\* Bodies of POST /api/register and POST /api/login: both keys optional,
\* '' is the empty string
CredentialBodies ==
    { [user_id |-> u, password |-> p] : u \in UserIds, p \in Passwords }
    \cup { [user_id |-> "u1"], [password |-> "p1"],
           [user_id |-> "", password |-> "p1"],
           [user_id |-> "u1", password |-> ""] }

\* Python `not x` on a string-valued key
FalsyStr(x) == x = NULL \/ x = ""

\* hashlib.sha256(password.encode()).hexdigest(): the digest is a value
\* other than the password, and different passwords have different digests
Sha256(password) == <<"sha256", password>>

\* SELECT * FROM users WHERE user_id=?  (the rows found)
UsersWithId(user_id) ==
    {i \in DOMAIN users : SqlEq(users[i].user_id, user_id)}

\* register replacing the stored password of an id that exists already
registerOverwrite(data) ==
    LET user_id  == Get(data, "user_id", NULL)
        password == Get(data, "password", NULL)
    IN  /\ last' = [op |-> "register", data |-> data, status |-> 200,
                    result |-> "success"]
        /\ users' = IF UsersWithId(user_id) # {}
                     THEN [i \in DOMAIN users |->
                             IF users[i].user_id = user_id
                             THEN [users[i] EXCEPT !.password = Sha256(password)]
                             ELSE users[i]]
                     ELSE Append(users, [id |-> Len(users) + 1,
                                         user_id |-> user_id,
                                         password |-> Sha256(password)])
        /\ UNCHANGED <<reports, nextId, seconds, time_str>>

\* POST /api/register
register(data) ==
    LET user_id  == Get(data, "user_id", NULL)
        password == Get(data, "password", NULL)
    IN  IF FalsyStr(user_id) \/ FalsyStr(password)
        THEN /\ last' = [op |-> "register", data |-> data, status |-> 400,
                         result |-> "error", error |-> "required"]
             /\ UNCHANGED <<reports, nextId, users, seconds, time_str>>
        ELSE IF UsersWithId(user_id) # {}
        THEN \* user_id TEXT UNIQUE: the INSERT raises IntegrityError
             /\ last' = [op |-> "register", data |-> data, status |-> 400,
                         result |-> "error", error |-> "exists"]
             /\ UNCHANGED <<reports, nextId, users, seconds, time_str>>
        ELSE /\ users' = Append(users, [id |-> Len(users) + 1,
                                         user_id |-> user_id,
                                         password |-> Sha256(password)])
             /\ last' = [op |-> "register", data |-> data, status |-> 200,
                         result |-> "success"]
             /\ UNCHANGED <<reports, nextId, seconds, time_str>>

\* POST /api/login
login(data, token) ==
    LET user_id  == Get(data, "user_id", NULL)
        password == Get(data, "password", NULL)
    IN  /\ last' =
              IF FalsyStr(user_id) \/ FalsyStr(password)
              THEN [op |-> "login", data |-> data, status |-> 400,
                    result |-> "error", error |-> "required"]
              ELSE IF UsersWithId(user_id) = {}
              THEN [op |-> "login", data |-> data, status |-> 400,
                    result |-> "error", error |-> "unknown id"]
              ELSE LET user == users[CHOOSE i \in UsersWithId(user_id) :
                                       \A j \in UsersWithId(user_id) : i <= j]
                   IN  IF user.password # Sha256(password)
                       THEN [op |-> "login", data |-> data, status |-> 400,
                             result |-> "error", error |-> "password mismatch"]
                       ELSE [op |-> "login", data |-> data, status |-> 200,
                             result |-> "success", token |-> token]
        /\ UNCHANGED <<reports, nextId, users, seconds, time_str>>

NextUsers ==
    \/ \E data \in CredentialBodies : register(data)
    \/ \E data \in CredentialBodies, token \in Tokens : login(data, token)

SpecUsers == Init /\ [][NextUsers]_vars

Next ==
    \/ \E data \in ReportBodies, now \in Times : save_report(data, now)
    \/ \E data \in UpdateBodies : update_report(data)
    \/ \E data \in ApproveBodies : admin_approve(data)

Spec == Init /\ [][Next]_vars

\* ------------------------------------------------------------------------
\* Properties
\* ------------------------------------------------------------------------
LastRow == reports[Len(reports)]

HasKey(data, key) == key \in DOMAIN data

RowWithId(id) == {i \in DOMAIN reports : reports[i].id = id}

\* C1 (as stated): after every successful Submit, whatever the body carries,
\* the created row has for_userpage_type = type and
\* for_userpage_stage = ai_stage.
C1_MirrorsWhateverSupplied ==
    (last.op = "report" /\ last.status = 200) =>
        /\ LastRow.for_userpage_type = LastRow.type
        /\ LastRow.for_userpage_stage = LastRow.ai_stage

\* C1 (amended): after a successful Submit the created row has
\* for_userpage_type = type when the body carries no for_userpage_type, and
\* for_userpage_stage = ai_stage when it carries no for_userpage_stage; a
\* value the body does carry is stored as given.
C1_MirrorsWhenOmitted ==
    (last.op = "report" /\ last.status = 200) =>
        /\ LastRow.for_userpage_type =
              IF HasKey(last.data, "for_userpage_type")
              THEN last.data.for_userpage_type ELSE LastRow.type
        /\ LastRow.for_userpage_stage =
              IF HasKey(last.data, "for_userpage_stage")
              THEN last.data.for_userpage_stage ELSE LastRow.ai_stage

C1_Witness ==
    /\ last.op = "report" /\ last.status = 200
    /\ ~HasKey(last.data, "for_userpage_type")
    /\ ~HasKey(last.data, "for_userpage_stage")
    /\ LastRow.type = REPORT /\ LastRow.for_userpage_type = REPORT
    /\ LastRow.ai_stage = 3 /\ LastRow.for_userpage_stage = 3

\* C2: a Submit whose body carries no location fails with a validation
\* error (status 400) and inserts no row.
C2_MissingLocationRejected ==
    [][(last'.op = "report" /\ ~HasKey(last'.data, "location")) =>
          (last'.status = 400 /\ reports' = reports)]_vars

\* C3: an AdminDecide with a decision in {3,5} on an existing report id
\* succeeds whatever the current stage of the report, and leaves ai_stage
\* and for_userpage_stage of that report equal to the decision of this most
\* recent call.
C3_LastDecisionWins ==
    ( /\ last.op = "admin_approve"
      /\ HasKey(last.data, "id") /\ HasKey(last.data, "ai_stage")
      /\ last.data.ai_stage \in {3, 5}
      /\ RowWithId(last.data.id) # {} ) =>
        /\ last.status = 200
        /\ \A i \in RowWithId(last.data.id) :
              /\ reports[i].ai_stage = last.data.ai_stage
              /\ reports[i].for_userpage_stage = last.data.ai_stage

\* A dispatched row left stage 1 only by decisions, so the decision handled
\* last found it at a stage other than 2.
C3_Witness ==
    /\ last.op = "admin_approve" /\ last.status = 200
    /\ last.data.ai_stage = 5
    /\ \E i \in RowWithId(last.data.id) :
          /\ reports[i].type = DISPATCHED
          /\ reports[i].ai_stage = 5
          /\ reports[i].for_userpage_stage = 5

\* C4: an AdminDecide with a decision in {3,5} and an id that matches no
\* stored report does not report success (it fails with a not-found error),
\* and the store is unchanged.
C4_UnknownIdFails ==
    [][( /\ last'.op = "admin_approve"
         /\ HasKey(last'.data, "id") /\ HasKey(last'.data, "ai_stage")
         /\ last'.data.ai_stage \in {3, 5}
         /\ RowWithId(last'.data.id) = {} ) =>
           (last'.status # 200 /\ last'.result # "success" /\ reports' = reports)]_vars

\* C5: an AdminDecide whose decision is outside {3,5}, or that carries no
\* id, fails with status 400 and leaves every stored report unchanged; and
\* no AdminDecide leaves a row with an ai_stage outside {3,5} that the row
\* did not have before.
C5_InvalidDecisionRejected ==
    [][(last'.op = "admin_approve") =>
          /\ ( \/ ~HasKey(last'.data, "id")
               \/ ~HasKey(last'.data, "ai_stage")
               \/ last'.data.ai_stage \notin {3, 5} ) =>
                 (last'.status = 400 /\ last'.result = "fail" /\ reports' = reports)
          /\ Len(reports') = Len(reports)
          /\ \A i \in DOMAIN reports :
                reports'[i].ai_stage # reports[i].ai_stage =>
                    reports'[i].ai_stage \in {3, 5}]_vars

C5_Witness ==
    /\ last.op = "admin_approve" /\ last.status = 400
    /\ HasKey(last.data, "id") /\ HasKey(last.data, "ai_stage")
    /\ last.data.ai_stage = 2
    /\ \E i \in RowWithId(last.data.id) : reports[i].ai_stage = 3

\* the columns an AdminDecide may not touch
SameButStages(r, q) ==
    /\ q.id = r.id
    /\ q.type = r.type
    /\ q.for_userpage_type = r.for_userpage_type
    /\ q.user_id = r.user_id
    /\ q.dispatch_user_id = r.dispatch_user_id
    /\ q.location = r.location
    /\ q.timestamp = r.timestamp

\* C6: a successful AdminDecide(id, d) changes only ai_stage and
\* for_userpage_stage of the report with that id; its other columns and
\* every other report are unchanged, and no row is added or removed.
C6_DecideFrame ==
    [][(last'.op = "admin_approve" /\ last'.status = 200) =>
          /\ Len(reports') = Len(reports)
          /\ \A i \in DOMAIN reports :
                IF reports[i].id = last'.data.id
                THEN SameButStages(reports[i], reports'[i])
                ELSE reports'[i] = reports[i]]_vars

\* a decided row whose shadow type differs from its type, beside a row the
\* decision left at another stage
C6_Witness ==
    /\ last.op = "admin_approve" /\ last.status = 200
    /\ Len(reports) = 2
    /\ \E i, j \in DOMAIN reports :
          /\ reports[i].id = last.data.id
          /\ reports[i].ai_stage = last.data.ai_stage
          /\ reports[i].for_userpage_type # reports[i].type
          /\ reports[j].id # last.data.id
          /\ reports[j].ai_stage # last.data.ai_stage
          /\ reports[j].for_userpage_stage # last.data.ai_stage

\* C7: Dispatch(L, u) turns exactly the rows with location L and type
\* REPORT, at whatever stage, into type DISPATCHED, ai_stage 1,
\* dispatch_user_id u, changing no other column of them; every other row is
\* unchanged (when the body carries no location no row matches); the call
\* returns success whether or not any row matched.
C7_DispatchExact ==
    [][(last'.op = "report_update") =>
          LET L == Get(last'.data, "location", NULL)
              u == Get(last'.data, "dispatch_user_id", NULL)
          IN  /\ last'.status = 200 /\ last'.result = "updated"
              /\ Len(reports') = Len(reports)
              /\ \A i \in DOMAIN reports :
                    IF /\ HasKey(last'.data, "location")
                       /\ reports[i].location = L
                       /\ reports[i].type = REPORT
                    THEN reports'[i] =
                           [reports[i] EXCEPT !.type = DISPATCHED,
                                              !.ai_stage = 1,
                                              !.dispatch_user_id = u]
                    ELSE reports'[i] = reports[i]]_vars

\* two rows at the dispatched location, both claimed by this call, one of
\* them decided (shadow stage 3 or 5) before it was claimed
C7_Witness ==
    /\ last.op = "report_update" /\ last.status = 200
    /\ HasKey(last.data, "location") /\ HasKey(last.data, "dispatch_user_id")
    /\ Len(reports) = 2
    /\ \A i \in DOMAIN reports :
          /\ reports[i].location = last.data.location
          /\ reports[i].type = DISPATCHED
          /\ reports[i].ai_stage = 1
          /\ reports[i].dispatch_user_id = last.data.dispatch_user_id
    /\ reports[1].dispatch_user_id = "u2"
    /\ reports[1].for_userpage_stage = 5
    /\ reports[2].for_userpage_stage = 2

\* C8 (as stated): a decision takes effect only on a report at ai_stage 2,
\* and once a REPORT row is at ai_stage 3 or 5 no operation changes its
\* ai_stage.
C8_TerminalStages ==
    [][\A i \in DOMAIN reports :
          /\ (last'.op = "admin_approve" /\ reports'[i] # reports[i]) =>
                reports[i].ai_stage = 2
          /\ (reports[i].type = REPORT /\ reports[i].ai_stage \in {3, 5}) =>
                reports'[i].ai_stage = reports[i].ai_stage]_vars

\* C8 (amended): the ai_stage of a stored row changes only by a successful
\* AdminDecide on its id, which sets it to 3 or 5 from whatever stage it is
\* at, or by a Dispatch of its location, which takes a REPORT row from
\* whatever stage it is at to stage 1 of the DISPATCHED track; no operation
\* returns a row to stage 2, and 3 and 5 are not terminal.
C8_StageMoves ==
    [][\A i \in DOMAIN reports :
          reports'[i].ai_stage # reports[i].ai_stage =>
            \/ /\ last'.op = "admin_approve" /\ last'.status = 200
               /\ reports[i].id = last'.data.id
               /\ reports'[i].ai_stage = last'.data.ai_stage
               /\ reports'[i].ai_stage \in {3, 5}
            \/ /\ last'.op = "report_update"
               /\ reports[i].type = REPORT
               /\ HasKey(last'.data, "location")
               /\ reports[i].location = last'.data.location
               /\ reports'[i].type = DISPATCHED
               /\ reports'[i].ai_stage = 1]_vars

\* a REPORT row that a decision had left at stage 5 (its shadow stage still
\* says so) and that the Dispatch handled last took to stage 1
C8_Witness ==
    /\ last.op = "report_update" /\ last.status = 200
    /\ HasKey(last.data, "location") /\ HasKey(last.data, "dispatch_user_id")
    /\ \E i, j \in DOMAIN reports :
          /\ reports[i].location = last.data.location
          /\ reports[i].type = DISPATCHED /\ reports[i].ai_stage = 1
          /\ reports[i].dispatch_user_id = last.data.dispatch_user_id
          /\ reports[i].for_userpage_type = REPORT
          /\ reports[i].for_userpage_stage = 5
          /\ reports[j].type = REPORT /\ reports[j].ai_stage = 3
          /\ reports[j].location # last.data.location

AllUsers == Users \cup Responders

\* C9: in every state and for every user u, the point Points(u) returns is
\* 5000 * report_count + 10000 * dispatch_count for the counts Stats(u)
\* returns in that state.
C9_PointsFromStats ==
    \A u \in AllUsers :
        user_point(u).point =
            5000 * user_stats(u).report_count
            + 10000 * user_stats(u).dispatch_count

\* a user with one approved report of their own that someone dispatched
\* (still credited by the shadow columns) and one dispatch of their own
C9_Witness ==
    \E u \in AllUsers :
        /\ user_stats(u).report_count = 1
        /\ user_stats(u).dispatch_count = 1
        /\ user_point(u).point = 15000
        /\ \E i \in DOMAIN reports :
              /\ reports[i].user_id = u
              /\ reports[i].type = DISPATCHED
              /\ reports[i].for_userpage_type = REPORT
              /\ reports[i].for_userpage_stage = 3
              /\ reports[i].dispatch_user_id # u

QueueIds(res) == {res[j].id : j \in DOMAIN res}

\* C10: every response of AdminQueue lists exactly the rows with type REPORT
\* and ai_stage 2, each once and with its own id, type, location and
\* timestamp, in an order in which timestamps never increase.
C10_AdminQueueExact ==
    \A res \in admin_reports :
        /\ QueueIds(res) =
              {reports[i].id : i \in
                  {k \in DOMAIN reports :
                      reports[k].type = REPORT /\ reports[k].ai_stage = 2}}
        /\ Cardinality(QueueIds(res)) = Len(res)
        /\ \A j \in DOMAIN res : \E i \in DOMAIN reports :
              /\ reports[i].id = res[j].id
              /\ reports[i].type = res[j].type
              /\ reports[i].location = res[j].location
              /\ reports[i].timestamp = res[j].timestamp
        /\ \A j, k \in DOMAIN res :
              j < k => res[j].timestamp >= res[k].timestamp

\* two pending reports, the one inserted later listed first
C10_Witness ==
    \E res \in admin_reports :
        /\ Len(res) = 2
        /\ res[1].timestamp > res[2].timestamp
        /\ res[1].id > res[2].id

\* C11: registering a user_id that is registered already fails with status
\* 400 (the id exists) and leaves the users table unchanged; no two rows of
\* the table share a user_id; a Login of a registered id succeeds exactly
\* when its password is the one the stored row was registered with, so the
\* password of a rejected second registration does not log in.
C11_DuplicateRejected ==
    [][ /\ ( /\ last'.op = "register"
             /\ HasKey(last'.data, "user_id") /\ HasKey(last'.data, "password")
             /\ last'.data.password # ""
             /\ \E i \in DOMAIN users : users[i].user_id = last'.data.user_id ) =>
               /\ last'.status = 400 /\ last'.error = "exists"
               /\ users' = users
        /\ \A i, j \in DOMAIN users' :
               users'[i].user_id = users'[j].user_id => i = j
        /\ \A i \in DOMAIN users : i \in DOMAIN users' /\ users'[i] = users[i]
        /\ ( /\ last'.op = "login"
             /\ HasKey(last'.data, "user_id") /\ HasKey(last'.data, "password")
             /\ last'.data.password # "" ) =>
               \A i \in DOMAIN users :
                  users[i].user_id = last'.data.user_id =>
                     /\ users' = users
                     /\ (last'.status = 200) <=>
                           (users[i].password = Sha256(last'.data.password)) ]_vars

\* a second registration of a stored id, with another password, rejected
C11_Witness ==
    /\ last.op = "register" /\ last.status = 400 /\ last.error = "exists"
    /\ Len(users) = 2
    /\ \E i \in DOMAIN users :
          /\ users[i].user_id = last.data.user_id
          /\ users[i].password # Sha256(last.data.password)
          /\ users[i].password = Sha256("p1")

Min(a, b) == IF a <= b THEN a ELSE b

\* the rows RecentActivity(global) is about
ActivityRows ==
    {i \in DOMAIN reports :
        \/ reports[i].type = REPORT /\ reports[i].ai_stage = 3
        \/ reports[i].type = DISPATCHED /\ reports[i].ai_stage = 1}

EntryRows(f) == {f[j][2] : j \in DOMAIN f}

\* C12: for every limit >= 0, RecentActivity(global, limit) returns
\* min(limit, n) entries, n the number of rows that are REPORT at stage 3 or
\* DISPATCHED at stage 1; each entry is one of those rows, none twice; the
\* timestamps of the entries never increase; and no such row that is left
\* out has a timestamp greater than one that is returned.
C12_RecentActivityTopN ==
    \A limit \in Limits :
        /\ \A f \in all_reportsRows(limit) :
              /\ Len(f) = Min(limit, Cardinality(ActivityRows))
              /\ EntryRows(f) \subseteq ActivityRows
              /\ Cardinality(EntryRows(f)) = Len(f)
              /\ \A i \in ActivityRows \ EntryRows(f), k \in EntryRows(f) :
                    reports[i].timestamp <= reports[k].timestamp
        /\ \A res \in all_reports(limit) :
              /\ Len(res) = Min(limit, Cardinality(ActivityRows))
              /\ \A j, k \in DOMAIN res :
                    j < k => res[j].timestamp >= res[k].timestamp
              /\ \A j \in DOMAIN res : \E i \in ActivityRows :
                    /\ res[j].type = reports[i].type
                    /\ res[j].location = reports[i].location
                    /\ res[j].timestamp = reports[i].timestamp

\* limit 1 over an approved report and a later-stamped dispatched one that
\* was inserted first: the dispatched row is returned, the report left out
C12_Witness ==
    /\ Len(reports) = 2
    /\ reports[1].type = DISPATCHED /\ reports[1].ai_stage = 1
    /\ reports[2].type = REPORT /\ reports[2].ai_stage = 3
    /\ reports[1].timestamp > reports[2].timestamp
    /\ all_reportsRows(1) = { << <<"dispatch", 1>> >> }
    /\ \A res \in all_reports(1) : Len(res) = 1 /\ res[1].type = DISPATCHED

SideCount(f, side) == Cardinality({j \in DOMAIN f : f[j][1] = side})

\* C13 (as stated): for scope global and scope user u, RecentActivity with a
\* limit at least the number of stored rows returns exactly report_count
\* entries from the REPORT side and dispatch_count entries from the
\* DISPATCHED side, the counts being those Stats returns for the scope.
C13_FeedMatchesStatsRowLimit ==
    \A limit \in Limits :
        limit >= Len(reports) =>
            /\ \A f \in all_reportsRows(limit) :
                  /\ SideCount(f, "report") = report_stats.blocked_count
                  /\ SideCount(f, "dispatch") = report_stats.dispatched_count
            /\ \A u \in AllUsers : \A f \in user_reportsRows(u, limit) :
                  /\ SideCount(f, "report") = user_stats(u).report_count
                  /\ SideCount(f, "dispatch") = user_stats(u).dispatch_count

\* C13 (amended): for scope global and scope user u, RecentActivity with a
\* limit at least report_count + dispatch_count (the counts Stats returns
\* for the scope) returns exactly report_count entries from the REPORT side
\* and dispatch_count entries from the DISPATCHED side.
C13_FeedMatchesStats ==
    \A limit \in Limits :
        /\ limit >= report_stats.blocked_count + report_stats.dispatched_count =>
              \A f \in all_reportsRows(limit) :
                  /\ SideCount(f, "report") = report_stats.blocked_count
                  /\ SideCount(f, "dispatch") = report_stats.dispatched_count
        /\ \A u \in AllUsers :
              limit >= user_stats(u).report_count + user_stats(u).dispatch_count =>
                 \A f \in user_reportsRows(u, limit) :
                    /\ SideCount(f, "report") = user_stats(u).report_count
                    /\ SideCount(f, "dispatch") = user_stats(u).dispatch_count

\* a user whose own approved report they dispatched themselves: one stored
\* row, selected by both sides of the user feed
C13_Witness ==
    /\ Len(reports) = 1
    /\ user_stats("u1").report_count = 1
    /\ user_stats("u1").dispatch_count = 1
    /\ \A f \in user_reportsRows("u1", 2) :
          Len(f) = 2 /\ SideCount(f, "report") = 1 /\ SideCount(f, "dispatch") = 1
    /\ \A f \in user_reportsRows("u1", 1) : Len(f) = 1

\* the bucket of the age s as the claim words it, edges in seconds
AgeBucket(s) ==
    IF s < 60 THEN <<s, "seconds">>
    ELSE IF s < 3600 THEN <<s \div 60, "minutes">>
    ELSE IF s < 86400 THEN <<s \div 3600, "hours">>
    ELSE IF s < 30 * 86400 THEN <<s \div 86400, "days">>
    ELSE <<(s \div 86400) \div 30, "months">>

\* C14: for every whole-second age s >= 0 the relative age is s seconds if
\* s < 60, floor(s/60) minutes if s < 3600, floor(s/3600) hours if
\* s < 86400, floor(s/86400) days if s < 30 days, else floor(days/30)
\* months (45 s: 45 seconds; 90 s: 1 minute; 2 days: 2 days; 40 days:
\* 1 month); RecentActivity (global and user) and AdminQueue give the same.
C14_AgeBuckets ==
    (last.op = "time_str") =>
        /\ time_str.all_reports = AgeBucket(seconds)
        /\ time_str.user_reports = AgeBucket(seconds)
        /\ time_str.admin_reports = AgeBucket(seconds)
        /\ (seconds = 45) => time_str.all_reports = <<45, "seconds">>
        /\ (seconds = 90) => time_str.all_reports = <<1, "minutes">>
        /\ (seconds = 172800) => time_str.all_reports = <<2, "days">>
        /\ (seconds = 3456000) => time_str.all_reports = <<1, "months">>

\* the age of exactly one minute, formatted as 1 minute by all three
C14_Witness ==
    /\ last.op = "time_str"
    /\ seconds = 60
    /\ time_str.all_reports = <<1, "minutes">>
    /\ time_str.user_reports = <<1, "minutes">>
    /\ time_str.admin_reports = <<1, "minutes">>

Ids(tbl) == {tbl[i].id : i \in DOMAIN tbl}

\* C15: no operation removes a report or changes its id; no two stored
\* reports share an id; every Submit adds exactly one row, and its id is
\* greater than every id assigned before.
C15_IdsKeptAndFresh ==
    [][ /\ \A i \in DOMAIN reports :
              i \in DOMAIN reports' /\ reports'[i].id = reports[i].id
        /\ \A i, j \in DOMAIN reports' :
              reports'[i].id = reports'[j].id => i = j
        /\ (last'.op = "report") =>
              /\ Len(reports') = Len(reports) + 1
              /\ \A k \in Ids(reports) : reports'[Len(reports')].id > k
              /\ reports'[Len(reports')].id >= nextId
        /\ (last'.op # "report") => Len(reports') = Len(reports) ]_vars

\* a second Submit, after the first row was dispatched and decided
C15_Witness ==
    /\ last.op = "report"
    /\ Len(reports) = 2
    /\ reports[1].id = 1 /\ reports[2].id = 2
    /\ reports[1].type = DISPATCHED /\ reports[1].ai_stage = 5

\* C16 (as stated): a DISPATCHED row at ai_stage 1 keeps ai_stage 1 in every
\* later state.
C16_DispatchedStageTerminal ==
    [][\A i \in DOMAIN reports :
          (reports[i].type = DISPATCHED /\ reports[i].ai_stage = 1) =>
              reports'[i].ai_stage = 1]_vars

\* C16 (amended): a DISPATCHED row stays DISPATCHED and no Dispatch changes
\* it, so no Dispatch moves it off stage 1; its ai_stage changes only by a
\* successful AdminDecide on its id, which sets ai_stage and
\* for_userpage_stage to 3 or 5 as on any other row.
C16_DispatchedOnlyDecided ==
    [][\A i \in DOMAIN reports :
          (reports[i].type = DISPATCHED) =>
              /\ reports'[i].type = DISPATCHED
              /\ (last'.op = "report_update") => reports'[i] = reports[i]
              /\ (reports'[i].ai_stage # reports[i].ai_stage) =>
                    /\ last'.op = "admin_approve" /\ last'.status = 200
                    /\ reports[i].id = last'.data.id
                    /\ reports'[i].ai_stage = last'.data.ai_stage
                    /\ reports'[i].for_userpage_stage = last'.data.ai_stage
                    /\ reports'[i].ai_stage \in {3, 5}]_vars

\* a row a responder claimed, approved afterwards
C16_Witness ==
    /\ last.op = "admin_approve" /\ last.status = 200
    /\ last.data.ai_stage = 3
    /\ \E i \in RowWithId(last.data.id) :
          /\ reports[i].type = DISPATCHED
          /\ reports[i].dispatch_user_id = "u1"
          /\ reports[i].ai_stage = 3

\* C17 (as stated): every row with a non-null dispatch_user_id has type
\* DISPATCHED, and every row with type REPORT has dispatch_user_id null.
C17_NullUntilClaimed ==
    \A i \in DOMAIN reports :
        /\ (reports[i].dispatch_user_id # NULL) => reports[i].type = DISPATCHED
        /\ (reports[i].type = REPORT) => reports[i].dispatch_user_id = NULL

\* C17 (amended): the dispatch_user_id of a row is the one its Submit body
\* carried, null when the body carried none, until a Dispatch claims the
\* row: only a Dispatch changes it, only on a REPORT row of its location,
\* which becomes DISPATCHED with the dispatch_user_id of the Dispatch.
C17_SetBySubmitOrDispatch ==
    [][ /\ (last'.op = "report") =>
              reports'[Len(reports')].dispatch_user_id =
                  IF HasKey(last'.data, "dispatch_user_id")
                  THEN last'.data.dispatch_user_id ELSE NULL
        /\ \A i \in DOMAIN reports :
              (reports'[i].dispatch_user_id # reports[i].dispatch_user_id) =>
                  /\ last'.op = "report_update"
                  /\ reports[i].type = REPORT
                  /\ reports[i].location = last'.data.location
                  /\ reports'[i].type = DISPATCHED
                  /\ reports'[i].dispatch_user_id =
                        Get(last'.data, "dispatch_user_id", NULL) ]_vars

\* a fresh REPORT row without responder beside a row a responder claimed
C17_Witness ==
    /\ last.op = "report" /\ ~HasKey(last.data, "dispatch_user_id")
    /\ Len(reports) = 2
    /\ reports[2].type = REPORT /\ reports[2].dispatch_user_id = NULL
    /\ reports[1].type = DISPATCHED /\ reports[1].dispatch_user_id = "u2"

\* two Dispatch calls handled one after the other, same location, different
\* responders
TwoDispatches ==
    /\ last.op = "report_update" /\ last'.op = "report_update"
    /\ HasKey(last.data, "location") /\ HasKey(last'.data, "location")
    /\ HasKey(last.data, "dispatch_user_id")
    /\ HasKey(last'.data, "dispatch_user_id")
    /\ last.data.location = last'.data.location
    /\ last.data.dispatch_user_id # last'.data.dispatch_user_id

\* the rows the earlier of the two calls holds
ClaimedByEarlier(i) ==
    /\ reports[i].location = last.data.location
    /\ reports[i].type = DISPATCHED
    /\ reports[i].dispatch_user_id = last.data.dispatch_user_id

\* C18 (as stated): of two Dispatch calls against one location by different
\* responders, each one atomic statement, the later one also matches the
\* row the earlier one claimed and leaves it with the later writer's
\* dispatch_user_id.
C18_LastWriterWins ==
    [][TwoDispatches =>
          \A i \in DOMAIN reports :
              ClaimedByEarlier(i) =>
                  reports'[i].dispatch_user_id = last'.data.dispatch_user_id]_vars

\* C18 (amended): of two Dispatch calls against one location by different
\* responders, each one atomic statement, only the earlier one matches a
\* pending row: the later one matches no row and changes nothing, and the
\* row keeps the dispatch_user_id of the earlier writer.
C18_FirstWriterWins ==
    [][TwoDispatches =>
          /\ reports' = reports
          /\ \A i \in DOMAIN reports :
                ClaimedByEarlier(i) =>
                    reports'[i].dispatch_user_id = last.data.dispatch_user_id]_vars

\* a Dispatch by u2 of a location whose row u1 holds
C18_Witness ==
    /\ last.op = "report_update"
    /\ HasKey(last.data, "location") /\ HasKey(last.data, "dispatch_user_id")
    /\ last.data.dispatch_user_id = "u2"
    /\ \E i \in DOMAIN reports :
          /\ reports[i].location = last.data.location
          /\ reports[i].type = DISPATCHED
          /\ reports[i].ai_stage = 1
          /\ reports[i].dispatch_user_id = "u1"

\* C19: every stored report has a type in {REPORT, DISPATCHED}, and the row
\* a Submit creates has type REPORT.
C19_TypeInEnum ==
    /\ \A i \in DOMAIN reports : reports[i].type \in {REPORT, DISPATCHED}
    /\ (last.op = "report") => LastRow.type = REPORT

\* the rows a Dispatch with the body `data` matches
Dispatched(data) ==
    {i \in DOMAIN reports :
        /\ HasKey(data, "location")
        /\ reports[i].location = data.location
        /\ reports[i].type = REPORT}

\* C20: a Dispatch changes for_userpage_type and for_userpage_stage of no
\* row, so for every user u the report_count of Stats(user u) is the same
\* after it as before, while the global blocked_count drops by the number
\* of rows it dispatched that were at ai_stage 3.
C20_DispatchKeepsShadow ==
    [][(last'.op = "report_update") =>
          /\ \A i \in DOMAIN reports :
                /\ reports'[i].for_userpage_type = reports[i].for_userpage_type
                /\ reports'[i].for_userpage_stage = reports[i].for_userpage_stage
          /\ \A u \in AllUsers :
                user_stats(u).report_count' = user_stats(u).report_count
          /\ report_stats.blocked_count' =
                report_stats.blocked_count
                - Cardinality({i \in Dispatched(last'.data) :
                                  reports[i].ai_stage = 3}) ]_vars

\* an approved report of u1 just dispatched by u2: u1 keeps the credit, the
\* global count of blocked reports no longer has it
C20_Witness ==
    /\ last.op = "report_update"
    /\ Len(reports) = 1
    /\ reports[1].user_id = "u1"
    /\ reports[1].type = DISPATCHED /\ reports[1].ai_stage = 1
    /\ reports[1].dispatch_user_id = "u2"
    /\ reports[1].location = last.data.location
    /\ reports[1].for_userpage_type = REPORT
    /\ reports[1].for_userpage_stage = 3
    /\ user_stats("u1").report_count = 1
    /\ report_stats.blocked_count = 0

====
